---- MODULE Spec2Model ----
(***************************************************************************)
(* Discovery / liveness subsystem of the A2A proxy server                  *)
(* (proxy_server/app/discovery.py).                                        *)
(*                                                                         *)
(* The registry is the module-level dict active_agents (key: base_url).    *)
(* It is modelled as a function whose DOMAIN is the set of keys present.   *)
(* poll_agent is a coroutine with one suspension point (the GET): the      *)
(* part before it is PollLaunch, the part after it is PollComplete.        *)
(* check_agent_liveness has no suspension point between reading the clock  *)
(* and releasing the lock, so it is one action.                            *)
(*                                                                         *)
(* The specifications share the state:                                     *)
(*   Spec          the operations called in any order at any clock reading *)
(*   LoopSpec      the operations as continuous_polling_loop drives them   *)
(*   LoopFairSpec  LoopSpec with the timers of asyncio.sleep firing        *)
(*   ReadSpec      the loop with the sweep statement by statement, and a   *)
(*                 caller of get_active_agents / get_all_discovered_agents *)
(*   StartSpec     start_continuous_polling for several values of          *)
(*                 AGENT_URLS, then the loop                               *)
(*   TokenSpec     polls one at a time with their requests traced          *)
(*   DecaySpec     the loop with cycles of exactly one poll interval and   *)
(*                 an endpoint that answers in cycle 0 only;               *)
(*   DecayFairSpec the same with the loop's steps taken when enabled       *)
(*   OrchSpec      process_dispute_request of the orchestrator and the     *)
(*                 services it calls                                       *)
(***************************************************************************)
EXTENDS Integers, Sequences, FiniteSets, TLC

\* ------------------------------------------------------------------ constants

POLL_INTERVAL_SECONDS == 30

INACTIVE_THRESHOLD_SECONDS == POLL_INTERVAL_SECONDS * 3 + 5

\* check_agent_liveness: "INACTIVE_THRESHOLD_SECONDS * 5"
REMOVAL_THRESHOLD_SECONDS == INACTIVE_THRESHOLD_SECONDS * 5

\* client.get(..., timeout=10.0)
POLL_TIMEOUT_SECONDS == 10

\* ------------------------------------------------------------------ bounds

\* number of poll coroutines that can be in flight at once
MaxTasks == 2

\* the last clock reading of the model
MaxTime == 485

\* base URLs that are polled
Endpoints == {"http://a", "http://b"}

\* The instants at which datetime.now(timezone.utc) is read.  They are chosen
\* so that the age now - last_seen of a record takes values below, exactly
\* at and above both thresholds (5, 95, 100, 380, 475, 480, 485).
ClockReadings == {0, 5,
                  INACTIVE_THRESHOLD_SECONDS + 5,
                  REMOVAL_THRESHOLD_SECONDS + 5,
                  MaxTime}

\* ------------------------------------------------------------------ values

\* Python None
None == "None"

\* a response body that response.json() cannot decode
NotJson == [JSONDecodeError |-> TRUE]

\* agent.json documents: JSON objects, as functions from keys to values
JsonX == [id |-> "X", name |-> "Agent X", description |-> "first",
          capabilities_url |-> "http://a/openapi.yaml"]

JsonY == [id |-> "Y", name |-> "Agent Y"]

JsonNoId == [name |-> "Agent X", description |-> "first"]

JsonEmptyId == [id |-> "", name |-> "Agent X"]

\* dict.get(key): None when the key is missing
Get(json, key) == IF key \in DOMAIN json THEN json[key] ELSE None

\* What the awaited client.get() can produce: an exception or a response.
Responses ==
    {[kind |-> "timeout", status |-> 0, body |-> NotJson],
     [kind |-> "connect_error", status |-> 0, body |-> NotJson]}
    \cup {[kind |-> "http", status |-> s, body |-> NotJson] :
              s \in {200, 401, 403, 404, 500}}
    \cup {[kind |-> "http", status |-> 200, body |-> b] :
              b \in {JsonX, JsonY, JsonNoId, JsonEmptyId}}
    \cup {[kind |-> "http", status |-> 500, body |-> JsonX]}

\* what fetch_id_token can produce
Tokens == {None, "tok"}

VARIABLES
    active_agents,  \* the registry: base_url -> AgentInfo
    now,            \* the wall clock, in seconds
    tasks,          \* poll_agent coroutines suspended in client.get(): url -> how many
    pc,             \* position of continuous_polling_loop
    cycleStart,     \* clock reading at the fan-out of the current cycle
    succeeded,      \* history: endpoints with at least one successful poll
    lastOp,         \* history: the last step that read the clock or the registry
    cycle,          \* history: what the current cycle of the loop has done
    lock,           \* discovery_lock: "free" or the coroutine that holds it
    crit,           \* check_agent_liveness inside its "async with" block
    held,           \* an AgentInfo object a caller got from a read and kept
    AGENT_URLS,     \* the environment variable AGENT_URLS
    req,            \* history: the last request traced (url, token, headers)
    orch            \* the orchestrator's process_dispute_request

vars == <<active_agents, now, tasks, pc, cycleStart, succeeded, lastOp,
          cycle, lock, crit, held, AGENT_URLS, req, orch>>

\* ------------------------------------------------------------------ AGENT_URLS

\* The value of an environment variable: unset, or a string.  The string is
\* modelled by its pieces between commas (what split(',') returns), each piece
\* a sequence of tokens, a token being a blank " " or a url.
Unset == [set |-> FALSE, pieces |-> << >>]

\* the string made of the pieces ps joined by commas
EnvString(ps) == [set |-> TRUE, pieces |-> ps]

\* str.strip(): the piece without its leading and trailing blanks
RECURSIVE Strip(_)
Strip(piece) ==
    IF piece = << >> THEN piece
    ELSE IF Head(piece) = " " THEN Strip(Tail(piece))
    ELSE IF piece[Len(piece)] = " " THEN Strip(SubSeq(piece, 1, Len(piece) - 1))
    ELSE piece

\* ParseUrls with the slip of keeping the blank entries
RECURSIVE ParseUrlsKeepsBlank(_)
ParseUrlsKeepsBlank(ps) ==
    IF ps = << >> THEN << >>
    ELSE (IF Strip(Head(ps)) # << >> THEN <<Strip(Head(ps))[1]>> ELSE <<"">>)
         \o ParseUrlsKeepsBlank(Tail(ps))

\* line 181: [url.strip() for url in agent_urls_str.split(',') if url.strip()]
\* (every non-blank piece of the model is one url between blanks)
RECURSIVE ParseUrls(_)
ParseUrls(ps) ==
    IF ps = << >> THEN << >>
    ELSE (IF Strip(Head(ps)) # << >> THEN <<Strip(Head(ps))[1]>> ELSE << >>)
         \o ParseUrls(Tail(ps))

\* lines 176-184: the list continuous_polling_loop is called with; empty when
\* start_continuous_polling returns without calling it (os.getenv gave None
\* or the empty string, or no entry is left)
agent_urls ==
    IF ~AGENT_URLS.set \/ AGENT_URLS.pieces = << << >> >> THEN << >>
    ELSE ParseUrls(AGENT_URLS.pieces)

\* the value of AGENT_URLS in the specifications that do not vary it
DefaultUrls == EnvString(<< <<"http://a">>, <<"http://b">> >>)

\* no request traced
NoRequest == [url |-> None, token |-> None, headers |-> << >>]

\* no transaction details (None in the place of a TransactionDetails)
NoDetails == [transaction_id |-> None, amount |-> 0, currency |-> None,
              merchant |-> None, status |-> None]

\* process_dispute_request not called
OrchIdle ==
    [pc |-> "idle", transaction_id |-> None,
     reason |-> [text |-> None, words |-> {}],
     discovered_agents |-> {}, transaction_details |-> NoDetails,
     calls |-> << >>, submitted |-> NoDetails, closed |-> 0,
     dispute_outcome |-> [kind |-> None, transaction_id |-> None,
                          decision |-> None],
     returned |-> "no"]

\* ------------------------------------------------------------------ helpers

\* models.AgentInfo
AgentInfo(agent_id, base_url, name, description, capabilities_url, last_seen, status, raw_agent_json) ==
    [agent_id |-> agent_id, base_url |-> base_url, name |-> name,
     description |-> description, capabilities_url |-> capabilities_url,
     last_seen |-> last_seen, status |-> status,
     raw_agent_json |-> raw_agent_json]

\* status of the record under key url, "absent" when there is none
StatusOf(reg, url) == IF url \in DOMAIN reg THEN reg[url].status ELSE "absent"

\* a dict with key k set to v (insert or overwrite)
DictSet(reg, k, v) == [x \in DOMAIN reg \cup {k} |-> IF x = k THEN v ELSE reg[x]]

\* a dict without the keys ks
DictDel(reg, ks) == [x \in DOMAIN reg \ ks |-> reg[x]]

\* the values of a dict as a list (the order of the keys is not modelled)
RECURSIVE DictValues(_, _)
DictValues(reg, keys) ==
    IF keys = {} THEN <<>>
    ELSE LET k == CHOOSE x \in keys : TRUE
         IN  <<reg[k]>> \o DictValues(reg, keys \ {k})

\* the sum of f over the keys ks
RECURSIVE Sum(_, _)
Sum(f, ks) ==
    IF ks = {} THEN 0
    ELSE LET k == CHOOSE x \in ks : TRUE IN f[k] + Sum(f, ks \ {k})

\* [info for info in list if info.status == "active"]
RECURSIVE ActiveOnly(_)
ActiveOnly(list) ==
    IF list = <<>> THEN <<>>
    ELSE (IF Head(list).status = "active" THEN <<Head(list)>> ELSE <<>>)
         \o ActiveOnly(Tail(list))

\* a cycle in which nothing has happened yet (afterError: the cycle before
\* it ended in the handler of line 167)
NewCycle == [polled |-> {}, failed |-> {}, sweeps |-> 0, error |-> FALSE,
             slept |-> 0, afterError |-> FALSE]

\* check_agent_liveness outside its "async with" block
Idle == [pc |-> "idle", t |-> 0, todo |-> {}, remove |-> {}, begin |-> << >>]

\* What the caller holds after the registry became reg2.  The caller holds
\* the object the dict referred to under h[1].key (lines 203-204 and 210 put
\* the dict's values themselves in the list).  An assignment to the key
\* (replaced) or a del makes the dict refer to another object or to none; an
\* assignment to an attribute of the dict's value is an assignment to the
\* object the caller holds.
HeldAfter(h, reg2, replaced) ==
    IF h = << >> \/ ~h[1].aliased THEN h
    ELSE IF h[1].key \in replaced \/ h[1].key \notin DOMAIN reg2
    THEN <<[h[1] EXCEPT !.aliased = FALSE]>>
    ELSE <<[h[1] EXCEPT !.obj = reg2[h[1].key]]>>

\* ------------------------------------------------------------------ poll_agent

\* PollResult with the slip of leaving out raise_for_status() (line 61)
PollResultNoStatusCheck(r) ==
    IF r.kind # "http" THEN None
    ELSE IF r.body = NotJson THEN None
    ELSE IF Get(r.body, "id") \in {None, ""} THEN None
    ELSE Get(r.body, "id")

\* lines 61-68: the agent id a response yields, None when any step raises
PollResult(r) ==
    IF r.kind # "http" THEN None                       \* get() raised
    ELSE IF r.status \notin 200..299 THEN None         \* raise_for_status()
    ELSE IF r.body = NotJson THEN None                 \* response.json()
    ELSE IF Get(r.body, "id") \in {None, ""} THEN None \* if not agent_id
    ELSE Get(r.body, "id")

\* UpsertKey with the slip of keying the dict by the claimed agent id
UpsertKeyById(agent_url, agent_json) == Get(agent_json, "id")

\* the dict key poll_agent stores the record under
UpsertKey(agent_url, agent_json) == agent_url

\* Upsert with the slip of refreshing the status and the descriptor of an
\* existing record but not its last_seen
UpsertKeepsLastSeen(reg, agent_url, agent_json, t) ==
    DictSet(reg, agent_url,
            AgentInfo(Get(agent_json, "id"), agent_url,
                      Get(agent_json, "name"),
                      Get(agent_json, "description"),
                      Get(agent_json, "capabilities_url"),
                      IF agent_url \in DOMAIN reg
                      THEN reg[agent_url].last_seen ELSE t,
                      "active", agent_json))

\* lines 70-81: the registry after a successful poll
Upsert(reg, agent_url, agent_json, t) ==
    DictSet(reg, UpsertKey(agent_url, agent_json),
            AgentInfo(Get(agent_json, "id"), agent_url,
                      Get(agent_json, "name"),
                      Get(agent_json, "description"),
                      Get(agent_json, "capabilities_url"),
                      t, "active", agent_json))

\* MarkUnreachable with the slip of recording an endpoint that has no record
MarkUnreachableCreates(reg, agent_url) ==
    IF agent_url \in DOMAIN reg
    THEN [reg EXCEPT ![agent_url].status = "unreachable"]
    ELSE DictSet(reg, agent_url,
                 AgentInfo("unknown", agent_url, None, None, None, 0,
                           "unreachable", NotJson))

\* MarkUnreachable with the slip of dropping the record of a failed endpoint
MarkUnreachableDrops(reg, agent_url) == DictDel(reg, {agent_url})

\* MarkUnreachable with the slip of using the status of the sweep
MarkUnreachableAsInactive(reg, agent_url) ==
    IF agent_url \in DOMAIN reg
    THEN [reg EXCEPT ![agent_url].status = "inactive"]
    ELSE reg

\* MarkUnreachable with the slip of leaving the record as it is
MarkUnreachableSkipped(reg, agent_url) == reg

\* lines 104-109: the registry after a failed poll
MarkUnreachable(reg, agent_url) ==
    IF agent_url \in DOMAIN reg
    THEN [reg EXCEPT ![agent_url].status = "unreachable"]
    ELSE reg

\* the number of coroutines in flight
InFlight(ts) == Sum(ts, DOMAIN ts)

\* lines 48-54: the headers of the request, given what the token fetch returned
Headers(token) ==
    IF token # None THEN [Authorization |-> <<"Bearer", token>>] ELSE << >>

\* PollLaunch with the slip of giving up when no token was obtained: no
\* request goes out and the endpoint is marked unreachable
PollLaunchAbortsWithoutToken(agent_url, token) ==
    /\ InFlight(tasks) < MaxTasks
    /\ tasks' = IF token # None THEN [tasks EXCEPT ![agent_url] = @ + 1]
                ELSE tasks
    /\ active_agents' = IF token # None THEN active_agents
                        ELSE MarkUnreachable(active_agents, agent_url)
    /\ UNCHANGED <<now, pc, cycleStart, succeeded, lastOp>>
    /\ UNCHANGED <<cycle, lock, crit, held>>
    /\ UNCHANGED <<AGENT_URLS, orch>>

\* lines 43-60: up to the suspension in client.get(); the request goes out
\* with Headers(token), which only a caller that traces requests records
PollLaunch(agent_url, token) ==
    /\ InFlight(tasks) < MaxTasks
    /\ tasks' = [tasks EXCEPT ![agent_url] = @ + 1]
    /\ UNCHANGED <<active_agents, now, pc, cycleStart, succeeded, lastOp>>
    /\ UNCHANGED <<cycle, lock, crit, held>>
    /\ UNCHANGED <<AGENT_URLS, orch>>

\* lines 60-113: from the resumption with response r to the return.  The
\* lock of line 70 or 104 is taken without waiting and released before the
\* return; the caller says what the step means for the cycle.
PollComplete(url, r) ==
    /\ tasks[url] > 0
    /\ lock = "free"
    /\ LET agent_url == url
           agent_id == PollResult(r)
       IN  /\ active_agents' =
                  IF agent_id # None
                  THEN Upsert(active_agents, agent_url, r.body, now)
                  ELSE MarkUnreachable(active_agents, agent_url)
           /\ succeeded' = IF agent_id # None
                           THEN succeeded \cup {agent_url} ELSE succeeded
           /\ lastOp' = [op |-> IF agent_id # None THEN "upsert"
                                ELSE "mark_unreachable",
                         url |-> agent_url,
                         id |-> agent_id,
                         pre |-> StatusOf(active_agents, agent_url),
                         preId |-> IF agent_url \in DOMAIN active_agents
                                   THEN active_agents[agent_url].agent_id
                                   ELSE None,
                         removed |-> {}, demoted |-> {}]
           /\ held' = HeldAfter(held, active_agents',
                                IF agent_id # None THEN {agent_url} ELSE {})
    /\ tasks' = [tasks EXCEPT ![url] = @ - 1]
    /\ UNCHANGED <<now, pc, cycleStart, lock, crit>>
    /\ UNCHANGED <<AGENT_URLS, req, orch>>

\* ------------------------------------------------------------------ check_agent_liveness

\* VeryOld with the slip of sparing active records, as the log message of
\* line 141 words it
VeryOldNotActive(info, t) ==
    /\ info.last_seen < t - REMOVAL_THRESHOLD_SECONDS
    /\ info.status # "active"

\* VeryOld with the slip of a non-strict comparison
VeryOldNonStrict(info, t) == info.last_seen <= t - REMOVAL_THRESHOLD_SECONDS

\* line 127: agent_info.last_seen < very_old_since
VeryOld(info, t) == info.last_seen < t - REMOVAL_THRESHOLD_SECONDS

\* Stale with the slip of demoting active records only
StaleActiveOnly(info, t) ==
    /\ info.last_seen < t - INACTIVE_THRESHOLD_SECONDS
    /\ info.status = "active"

\* Stale with the slip of a non-strict comparison
StaleNonStrict(info, t) ==
    /\ info.last_seen <= t - INACTIVE_THRESHOLD_SECONDS
    /\ info.status # "inactive"

\* line 132: agent_info.last_seen < inactive_since and status != "inactive"
Stale(info, t) ==
    /\ info.last_seen < t - INACTIVE_THRESHOLD_SECONDS
    /\ info.status # "inactive"

\* AgentsToRemove with the slip of removing only records a sweep had demoted
AgentsToRemoveInactiveOnly(reg, t) ==
    {url \in DOMAIN reg : VeryOld(reg[url], t) /\ reg[url].status = "inactive"}

\* lines 126-128: the keys collected in agents_to_remove
AgentsToRemove(reg, t) == {url \in DOMAIN reg : VeryOld(reg[url], t)}

\* lines 132-133: the keys whose record is set to "inactive"
AgentsToDemote(reg, t) ==
    {url \in DOMAIN reg : ~VeryOld(reg[url], t) /\ Stale(reg[url], t)}

\* Liveness with the slip of stamping the records it demotes
LivenessTouches(reg, t) ==
    DictDel([url \in DOMAIN reg |->
                 IF url \in AgentsToDemote(reg, t)
                 THEN [reg[url] EXCEPT !.status = "inactive", !.last_seen = t]
                 ELSE reg[url]],
            AgentsToRemove(reg, t))

\* Liveness with the branch the comment of line 136 says was removed: a
\* record seen within the threshold is marked active again
LivenessPromotes(reg, t) ==
    DictDel([url \in DOMAIN reg |->
                 IF url \in AgentsToDemote(reg, t)
                 THEN [reg[url] EXCEPT !.status = "inactive"]
                 ELSE IF reg[url].last_seen >= t - INACTIVE_THRESHOLD_SECONDS
                 THEN [reg[url] EXCEPT !.status = "active"]
                 ELSE reg[url]],
            AgentsToRemove(reg, t))

\* lines 118-142: the registry after a sweep at time t
Liveness(reg, t) ==
    DictDel([url \in DOMAIN reg |->
                 IF url \in AgentsToDemote(reg, t)
                 THEN [reg[url] EXCEPT !.status = "inactive"]
                 ELSE reg[url]],
            AgentsToRemove(reg, t))

\* check_agent_liveness(), from reading the clock to releasing the lock
check_agent_liveness ==
    /\ lock = "free"
    /\ active_agents' = Liveness(active_agents, now)
    /\ held' = HeldAfter(held, active_agents', {})
    /\ lastOp' = [op |-> "sweep", url |-> None, id |-> None, pre |-> None,
                  preId |-> None,
                  removed |-> {<<u, active_agents[u].status>> :
                                  u \in AgentsToRemove(active_agents, now)},
                  demoted |-> {<<u, active_agents[u].status>> :
                                  u \in AgentsToDemote(active_agents, now)}]
    /\ UNCHANGED <<now, tasks, cycleStart, succeeded, lock, crit>>
    /\ UNCHANGED <<AGENT_URLS, req, orch>>

\* ------------------------------------------------------------------ reads

\* get_active_agents()
get_active_agents ==
    ActiveOnly(DictValues(active_agents, DOMAIN active_agents))

\* get_all_discovered_agents()
get_all_discovered_agents == DictValues(active_agents, DOMAIN active_agents)

\* the records of a list whose base_url is e
RecordsFor(list, e) == {i \in DOMAIN list : list[i].base_url = e}

\* ------------------------------------------------------------------ the clock

\* lastOp after a step in which only time passes
ClockOp == [op |-> "tick", url |-> None, id |-> None, pre |-> None,
            preId |-> None, removed |-> {}, demoted |-> {}]

\* time passes: the next reading of the clock is later
Tick ==
    /\ \E t \in ClockReadings : t > now /\ now' = t
    /\ lastOp' = ClockOp
    /\ UNCHANGED <<active_agents, tasks, pc, cycleStart, succeeded>>
    /\ UNCHANGED <<cycle, lock, crit, held>>
    /\ UNCHANGED <<AGENT_URLS, req, orch>>

\* ------------------------------------------------------------------ Spec

NoOp == [op |-> "init", url |-> None, id |-> None, pre |-> None,
         preId |-> None, removed |-> {}, demoted |-> {}]

Init ==
    /\ active_agents = << >>
    /\ now = 0
    /\ tasks = [u \in Endpoints |-> 0]
    /\ pc = "none"
    /\ cycleStart = 0
    /\ succeeded = {}
    /\ lastOp = NoOp
    /\ cycle = NewCycle
    /\ lock = "free"
    /\ crit = Idle
    /\ held = << >>
    /\ AGENT_URLS = DefaultUrls
    /\ req = NoRequest
    /\ orch = OrchIdle

Poll ==
    /\ \E u \in Endpoints, tok \in Tokens : PollLaunch(u, tok)
    /\ UNCHANGED req

Reply ==
    /\ \E u \in Endpoints, r \in Responses : PollComplete(u, r)
    /\ UNCHANGED cycle

Sweep == check_agent_liveness /\ UNCHANGED <<pc, cycle>>

Next == Poll \/ Reply \/ Sweep \/ Tick

Spec == Init /\ [][Next]_vars

\* ------------------------------------------------------------------ continuous_polling_loop

\* how many times url occurs in the list urls
Count(urls, url) == Cardinality({i \in DOMAIN urls : urls[i] = url})

\* FanOut with the slip of taking discovery_lock before the token is fetched
\* and the request is sent, to release it after the upsert
FanOutUnderLock ==
    /\ pc = "poll"
    /\ lock = "free"
    /\ lock' = "poll"
    /\ tasks' = [u \in Endpoints |-> tasks[u] + Count(agent_urls, u)]
    /\ cycleStart' = now
    /\ pc' = "gather"
    /\ cycle' = [NewCycle EXCEPT !.afterError = cycle.error]
    /\ UNCHANGED <<active_agents, now, succeeded, lastOp, crit, held>>
    /\ UNCHANGED <<AGENT_URLS, req, orch>>

\* lines 154-155: one poll_agent coroutine per configured url, each run up to
\* its suspension in client.get() (lines 50-60: the token fetch and the
\* request, neither under the lock)
FanOut ==
    /\ pc = "poll"
    /\ tasks' = [u \in Endpoints |-> tasks[u] + Count(agent_urls, u)]
    /\ cycleStart' = now
    /\ pc' = "gather"
    /\ cycle' = [NewCycle EXCEPT !.afterError = cycle.error]
    /\ UNCHANGED <<active_agents, now, succeeded, lastOp, lock, crit, held>>
    /\ UNCHANGED <<AGENT_URLS, req, orch>>

\* GatherPoll with the slip of letting the exception of a failed poll leave
\* poll_agent: gather(return_exceptions=False) raises it at once, the loop
\* goes to its handler and the other polls are left behind
GatherPollAborts ==
    /\ pc = "gather"
    /\ crit.pc = "idle"
    /\ \E u \in Endpoints, r \in Responses :
          /\ tasks[u] > 0
          /\ IF PollResult(r) # None
             THEN /\ PollComplete(u, r)
                  /\ cycle' = [cycle EXCEPT !.polled = @ \cup {u}]
             ELSE /\ tasks' = [tasks EXCEPT ![u] = @ - 1]
                  /\ pc' = "error_sleep"
                  /\ cycle' = [cycle EXCEPT !.error = TRUE, !.slept = now]
                  /\ UNCHANGED <<active_agents, now, cycleStart, succeeded,
                                 lastOp, lock, crit, held>>
    /\ UNCHANGED <<AGENT_URLS, req, orch>>

\* GatherPoll with the slip of sending the request again when a poll failed
\* (the transport retries that lines 186-188 leave commented out)
GatherPollRetries ==
    /\ pc = "gather"
    /\ crit.pc = "idle"
    /\ \E u \in Endpoints, r \in Responses :
          /\ tasks[u] > 0
          /\ lock = "free"
          /\ IF PollResult(r) # None
             THEN PollComplete(u, r)
             ELSE /\ active_agents' = MarkUnreachable(active_agents, u)
                  /\ lastOp' = [op |-> "mark_unreachable", url |-> u,
                                id |-> None,
                                pre |-> StatusOf(active_agents, u),
                                preId |-> IF u \in DOMAIN active_agents
                                          THEN active_agents[u].agent_id
                                          ELSE None,
                                removed |-> {}, demoted |-> {}]
                  /\ held' = HeldAfter(held, active_agents', {})
                  /\ UNCHANGED <<tasks, succeeded, now, pc, cycleStart, lock,
                                 crit, AGENT_URLS, req, orch>>
          /\ cycle' = [cycle EXCEPT
                          !.polled = @ \cup {u},
                          !.failed = IF PollResult(r) = None
                                     THEN @ \cup {u} ELSE @ \ {u}]

\* a response or an exception ends one suspended poll_agent of the cycle
GatherPoll ==
    /\ pc = "gather"
    /\ crit.pc = "idle"
    /\ \E u \in Endpoints, r \in Responses :
          /\ PollComplete(u, r)
          /\ cycle' = [cycle EXCEPT
                          !.polled = @ \cup {u},
                          !.failed = IF PollResult(r) = None
                                     THEN @ \cup {u} ELSE @ \ {u}]

\* time passes while gather waits: every client.get() returns or raises
\* within its timeout, so the cycle's polls end by cycleStart + timeout
GatherWait ==
    /\ pc = "gather"
    /\ crit.pc = "idle"
    /\ \E t \in ClockReadings :
          /\ t > now
          /\ t <= cycleStart + POLL_TIMEOUT_SECONDS
          /\ now' = t
    /\ lastOp' = ClockOp
    /\ UNCHANGED <<active_agents, tasks, pc, cycleStart, succeeded>>
    /\ UNCHANGED <<cycle, lock, crit, held>>
    /\ UNCHANGED <<AGENT_URLS, req, orch>>

\* LoopSweep with the slip of not waiting for every poll of the cycle (a
\* wait for the first result in the place of gather)
LoopSweepEarly ==
    /\ pc = "gather"
    /\ cycle.polled # {}
    /\ check_agent_liveness
    /\ pc' = "sleep"
    /\ cycle' = [cycle EXCEPT !.sweeps = @ + 1, !.slept = now]

\* lines 155-163: gather returns when every poll has returned, then the
\* sweep, then the loop is suspended in asyncio.sleep
LoopSweep ==
    /\ pc = "gather"
    /\ InFlight(tasks) = 0
    /\ check_agent_liveness
    /\ pc' = "sleep"
    /\ cycle' = [cycle EXCEPT !.sweeps = @ + 1, !.slept = now]

\* lastOp after an exception reached the handler of line 167
ErrorOp == [op |-> "error", url |-> None, id |-> None, pre |-> None,
            preId |-> None, removed |-> {}, demoted |-> {}]

\* LoopError with the slip of an exception that leaves gather while polls of
\* the cycle are suspended: nothing awaits them any more
LoopErrorLeavesPolls ==
    /\ pc = "gather"
    /\ pc' = "error_sleep"
    /\ cycle' = [cycle EXCEPT !.error = TRUE, !.slept = now]
    /\ lastOp' = ErrorOp
    /\ UNCHANGED <<active_agents, now, tasks, cycleStart, succeeded>>
    /\ UNCHANGED <<lock, crit, held>>
    /\ UNCHANGED <<AGENT_URLS, req, orch>>

\* LoopError without the handler of line 167: the exception ends the loop
LoopErrorFatal ==
    /\ pc = "gather"
    /\ InFlight(tasks) = 0
    /\ pc' = "crashed"
    /\ cycle' = [cycle EXCEPT !.error = TRUE, !.slept = now]
    /\ lastOp' = ErrorOp
    /\ UNCHANGED <<active_agents, now, tasks, cycleStart, succeeded>>
    /\ UNCHANGED <<lock, crit, held>>
    /\ UNCHANGED <<AGENT_URLS, req, orch>>

\* lines 167-170: an exception that is no CancelledError is raised between
\* the return of gather and the sleep (lines 156-160) and caught at line 167;
\* the loop is then suspended in the sleep of line 170.  No exception leaves
\* poll_agent (lines 85-101 catch every Exception), so gather raises none
\* while polls are suspended.  The exception is an input of the model: it
\* is raised before check_agent_liveness has changed the registry.
LoopError ==
    /\ pc = "gather"
    /\ InFlight(tasks) = 0
    /\ pc' = "error_sleep"
    /\ cycle' = [cycle EXCEPT !.error = TRUE, !.slept = now]
    /\ lastOp' = ErrorOp
    /\ UNCHANGED <<active_agents, now, tasks, cycleStart, succeeded>>
    /\ UNCHANGED <<lock, crit, held>>
    /\ UNCHANGED <<AGENT_URLS, req, orch>>

\* time passes while the loop is suspended in asyncio.sleep (line 163 or
\* 170) and the sleep is not over
SleepWait ==
    /\ pc \in {"sleep", "error_sleep"}
    /\ \E t \in ClockReadings :
          /\ t > now
          /\ t < cycle.slept + POLL_INTERVAL_SECONDS
          /\ now' = t
    /\ lastOp' = ClockOp
    /\ UNCHANGED <<active_agents, tasks, pc, cycleStart, succeeded>>
    /\ UNCHANGED <<cycle, lock, crit, held>>
    /\ UNCHANGED <<AGENT_URLS, req, orch>>

\* LoopSleep with the slip of a cancellation that does not stop the loop
\* (a handler that logs CancelledError and goes on)
LoopSleepAfterCancel ==
    /\ pc \in {"sleep", "cancelled"}
    /\ \E t \in ClockReadings :
          /\ t >= cycle.slept + POLL_INTERVAL_SECONDS
          /\ now' = t
    /\ pc' = "poll"
    /\ lastOp' = ClockOp
    /\ UNCHANGED <<active_agents, tasks, cycleStart, succeeded>>
    /\ UNCHANGED <<cycle, lock, crit, held>>
    /\ UNCHANGED <<AGENT_URLS, req, orch>>

\* line 163: asyncio.sleep returns no earlier than POLL_INTERVAL_SECONDS
\* after it was called
LoopSleep ==
    /\ pc = "sleep"
    /\ \E t \in ClockReadings :
          /\ t >= cycle.slept + POLL_INTERVAL_SECONDS
          /\ now' = t
    /\ pc' = "poll"
    /\ lastOp' = ClockOp
    /\ UNCHANGED <<active_agents, tasks, cycleStart, succeeded>>
    /\ UNCHANGED <<cycle, lock, crit, held>>
    /\ UNCHANGED <<AGENT_URLS, req, orch>>

\* line 170: the sleep of the handler returns, the while loop goes on
LoopErrorSleep ==
    /\ pc = "error_sleep"
    /\ \E t \in ClockReadings :
          /\ t >= cycle.slept + POLL_INTERVAL_SECONDS
          /\ now' = t
    /\ pc' = "poll"
    /\ lastOp' = ClockOp
    /\ UNCHANGED <<active_agents, tasks, cycleStart, succeeded>>
    /\ UNCHANGED <<cycle, lock, crit, held>>
    /\ UNCHANGED <<AGENT_URLS, req, orch>>

\* lastOp after the loop's task was cancelled
CancelOp == [op |-> "cancel", url |-> None, id |-> None, pre |-> None,
             preId |-> None, removed |-> {}, demoted |-> {}]

\* lines 164-166: CancelledError is raised at the await the loop is suspended
\* in.  A cancelled gather cancels the polls still in flight, which leave
\* poll_agent without reaching line 104 (CancelledError is no Exception).  In
\* the sleep of line 163 the handler of line 164 breaks out of the loop; in
\* the sleep of line 170 no handler is around it and CancelledError leaves
\* the function.
LoopCancel ==
    /\ pc \in {"gather", "sleep", "error_sleep"}
    /\ tasks' = [u \in Endpoints |-> 0]
    /\ pc' = "cancelled"
    /\ lastOp' = CancelOp
    /\ UNCHANGED <<active_agents, now, cycleStart, succeeded>>
    /\ UNCHANGED <<cycle, lock, crit, held>>
    /\ UNCHANGED <<AGENT_URLS, req, orch>>

LoopInit ==
    /\ active_agents = << >>
    /\ now = 0
    /\ tasks = [u \in Endpoints |-> 0]
    /\ pc = "poll"
    /\ cycleStart = 0
    /\ succeeded = {}
    /\ lastOp = NoOp
    /\ cycle = NewCycle
    /\ lock = "free"
    /\ crit = Idle
    /\ held = << >>
    /\ AGENT_URLS = DefaultUrls
    /\ req = NoRequest
    /\ orch = OrchIdle

LoopNext ==
    \/ FanOut \/ GatherPoll \/ GatherWait \/ LoopSweep \/ LoopError
    \/ SleepWait \/ LoopSleep \/ LoopErrorSleep \/ LoopCancel

LoopSpec == LoopInit /\ [][LoopNext]_vars

\* The timer of asyncio.sleep fires and the event loop resumes the loop's
\* task, which then runs to the fan-out without awaiting: a sleep that can end
\* does end, and the loop at line 154 launches its polls.
LoopFairSpec ==
    /\ LoopSpec
    /\ WF_vars(LoopErrorSleep)
    /\ WF_vars(LoopSleep)
    /\ WF_vars(FanOut)

\* ------------------------------------------------------------------ the sweep, statement by statement

\* SweepSuspensions with the slip of an await between the two loops of
\* check_agent_liveness, inside the "async with" block
SweepSuspendsBeforeDelete == {"delete"}

\* lines 125-142: the positions inside the "async with" block at which
\* check_agent_liveness awaits, i.e. gives the event loop to other
\* coroutines while it holds the lock: there is none
SweepSuspensions == {}

\* the event loop can run another coroutine or a request handler: no
\* coroutine is between two of its suspension points
EventLoopFree == crit.pc = "idle" \/ crit.pc \in SweepSuspensions

\* lines 118-125: gather has returned; the clock is read and the lock taken
SweepBegin ==
    /\ pc = "gather"
    /\ InFlight(tasks) = 0
    /\ crit.pc = "idle"
    /\ lock = "free"
    /\ lock' = "sweep"
    /\ crit' = [pc |-> IF DOMAIN active_agents = {} THEN "delete" ELSE "visit",
                t |-> now,
                todo |-> DOMAIN active_agents,
                remove |-> {},
                begin |-> active_agents]
    /\ UNCHANGED <<active_agents, now, tasks, pc, cycleStart, succeeded,
                   lastOp, cycle, held>>
    /\ UNCHANGED <<AGENT_URLS, req, orch>>

\* lines 126-135: one pass of the loop over active_agents.items()
SweepVisit ==
    /\ crit.pc = "visit"
    /\ \E url \in crit.todo :
          LET agent_info == active_agents[url] IN
          /\ active_agents' =
                 IF ~VeryOld(agent_info, crit.t) /\ Stale(agent_info, crit.t)
                 THEN [active_agents EXCEPT ![url].status = "inactive"]
                 ELSE active_agents
          /\ crit' = [crit EXCEPT
                         !.todo = @ \ {url},
                         !.remove = IF VeryOld(agent_info, crit.t)
                                    THEN @ \cup {url} ELSE @,
                         !.pc = IF crit.todo = {url}
                                THEN "delete" ELSE "visit"]
    /\ held' = HeldAfter(held, active_agents', {})
    /\ UNCHANGED <<now, tasks, pc, cycleStart, succeeded, lastOp, cycle, lock>>
    /\ UNCHANGED <<AGENT_URLS, req, orch>>

\* lines 139-142: one pass of the loop over agents_to_remove
SweepDelete ==
    /\ crit.pc = "delete"
    /\ \E url \in crit.remove :
          /\ active_agents' = DictDel(active_agents, {url})
          /\ crit' = [crit EXCEPT !.remove = @ \ {url}]
    /\ held' = HeldAfter(held, active_agents', {})
    /\ UNCHANGED <<now, tasks, pc, cycleStart, succeeded, lastOp, cycle, lock>>
    /\ UNCHANGED <<AGENT_URLS, req, orch>>

\* lines 142-163: the lock is released, check_agent_liveness returns and the
\* loop is suspended in asyncio.sleep
SweepEnd ==
    /\ crit.pc = "delete"
    /\ crit.remove = {}
    /\ lock' = "free"
    /\ crit' = Idle
    /\ pc' = "sleep"
    /\ cycle' = [cycle EXCEPT !.sweeps = @ + 1, !.slept = now]
    /\ lastOp' = [op |-> "sweep", url |-> None, id |-> None, pre |-> None,
                  preId |-> None,
                  removed |-> {<<u, crit.begin[u].status>> :
                                  u \in AgentsToRemove(crit.begin, crit.t)},
                  demoted |-> {<<u, crit.begin[u].status>> :
                                  u \in AgentsToDemote(crit.begin, crit.t)}]
    /\ UNCHANGED <<active_agents, now, tasks, cycleStart, succeeded, held>>
    /\ UNCHANGED <<AGENT_URLS, req, orch>>

\* ------------------------------------------------------------------ a caller of the reads

\* A request handler (or any other caller on the event loop) calls
\* get_all_discovered_agents() or get_active_agents() and keeps one of the
\* objects of the returned list.  The reads take no lock and do not await.
Read ==
    /\ EventLoopFree
    /\ \E which \in {"all", "active"} :
          LET list == IF which = "all" THEN get_all_discovered_agents
                      ELSE get_active_agents
          IN  \/ list = << >> /\ held' = << >>
              \/ \E i \in DOMAIN list :
                    held' = <<[key |-> list[i].base_url,
                               returned |-> list[i],
                               obj |-> list[i],
                               aliased |-> TRUE]>>
    /\ UNCHANGED <<active_agents, now, tasks, pc, cycleStart, succeeded,
                   lastOp, cycle, lock, crit>>
    /\ UNCHANGED <<AGENT_URLS, req, orch>>

ReadNext ==
    \/ FanOut \/ GatherPoll \/ GatherWait
    \/ SweepBegin \/ SweepVisit \/ SweepDelete \/ SweepEnd
    \/ LoopSleep \/ Read

ReadSpec == LoopInit /\ [][ReadNext]_vars

\* ------------------------------------------------------------------ steps

\* this step is a successful poll of u (lines 70-83 ran)
StepUpsert(u) ==
    /\ tasks'[u] = tasks[u] - 1
    /\ lastOp'.op = "upsert"
    /\ lastOp'.url = u

\* this step is a failed poll of u (lines 104-113 ran)
StepMarkUnreachable(u) ==
    /\ tasks'[u] = tasks[u] - 1
    /\ lastOp'.op = "mark_unreachable"
    /\ lastOp'.url = u

\* this step is a sweep (check_agent_liveness ran)
StepSweep ==
    /\ lastOp'.op = "sweep"
    /\ tasks' = tasks
    /\ now' = now

\* the keys of the registry whose record is for endpoint e
KeysFor(reg, e) == {k \in DOMAIN reg : reg[k].base_url = e}

\* age of the record under key u at the current clock reading
Age(u) == now - active_agents[u].last_seen

\* ------------------------------------------------------------------ C1

\* an endpoint without a successful poll so far has no record
C1_NeverPolledIsAbsent ==
    \A e \in Endpoints :
        e \notin succeeded =>
            /\ e \notin DOMAIN active_agents
            /\ KeysFor(active_agents, e) = {}
            /\ RecordsFor(get_all_discovered_agents, e) = {}
            /\ RecordsFor(get_active_agents, e) = {}

\* C1: records are created only by a successful poll.  An endpoint that no
\* poll has succeeded for has no record in the registry, in listAll() and in
\* listActive(); a failed poll of an absent endpoint leaves the registry as
\* it was; a sweep creates no record.
C1_CreatedOnlyBySuccess ==
    /\ []C1_NeverPolledIsAbsent
    /\ [][\A u \in Endpoints :
             (StepMarkUnreachable(u) /\ u \notin DOMAIN active_agents)
                 => active_agents' = active_agents]_vars
    /\ [][StepSweep => DOMAIN active_agents' \subseteq DOMAIN active_agents]_vars
    /\ [][\A u \in DOMAIN active_agents' \ DOMAIN active_agents :
             StepUpsert(u)]_vars

\* a poll of an endpoint that never succeeded failed (e.g. 404 on the first
\* attempt) while the other endpoint has a record
C1_Witness ==
    /\ lastOp.op = "mark_unreachable"
    /\ lastOp.pre = "absent"
    /\ lastOp.url \notin succeeded
    /\ active_agents # << >>

\* ------------------------------------------------------------------ C2

\* C2: right after a poll of E succeeded at time t claiming id X, listAll()
\* holds exactly one record for E, with status active, id X and last_seen t,
\* and listActive() holds it too, whatever the registry held for E before.
C2_AfterSuccess ==
    lastOp.op = "upsert" =>
        LET e == lastOp.url
            all == get_all_discovered_agents
            act == get_active_agents
        IN  /\ Cardinality(RecordsFor(all, e)) = 1
            /\ \A i \in RecordsFor(all, e) :
                   /\ all[i].status = "active"
                   /\ all[i].agent_id = lastOp.id
                   /\ all[i].last_seen = now
            /\ Cardinality(RecordsFor(act, e)) = 1
            /\ \A i \in RecordsFor(act, e) : act[i] = active_agents[e]

\* a successful poll at a late time of an endpoint whose record was inactive
C2_Witness ==
    /\ lastOp.op = "upsert"
    /\ lastOp.pre = "inactive"
    /\ lastOp.id = "X"
    /\ now > INACTIVE_THRESHOLD_SECONDS

\* ------------------------------------------------------------------ C3

\* the fields of AgentInfo other than status
OtherFields == {"agent_id", "base_url", "name", "description",
                "capabilities_url", "last_seen", "raw_agent_json"}

\* C3: a failed poll of an endpoint whose record is active changes only the
\* status, to unreachable: every other field of the record and every other
\* record is as before, listActive() no longer returns the record and
\* listAll() still does.
C3_FailureChangesOnlyStatus ==
    [][\A u \in Endpoints :
          (StepMarkUnreachable(u) /\ StatusOf(active_agents, u) = "active") =>
              /\ DOMAIN active_agents' = DOMAIN active_agents
              /\ active_agents'[u].status = "unreachable"
              /\ \A f \in OtherFields :
                     active_agents'[u][f] = active_agents[u][f]
              /\ \A k \in DOMAIN active_agents \ {u} :
                     active_agents'[k] = active_agents[k]
              /\ RecordsFor(get_active_agents', u) = {}
              /\ Cardinality(RecordsFor(get_all_discovered_agents', u)) = 1
      ]_vars

\* a poll of an active endpoint failed, later than its last success, while
\* the other endpoint has a record too
C3_Witness ==
    /\ lastOp.op = "mark_unreachable"
    /\ lastOp.pre = "active"
    /\ Cardinality(DOMAIN active_agents) = 2
    /\ active_agents[lastOp.url].status = "unreachable"
    /\ active_agents[lastOp.url].last_seen < now

\* ------------------------------------------------------------------ C4

\* C4: last_seen of a record changes only in a successful poll of its
\* endpoint, and then not backwards; a failed poll and a sweep leave the
\* last_seen of every record that survives the step as it was.
C4_LastSeenOnlyOnSuccess ==
    [][\A u \in DOMAIN active_agents \cap DOMAIN active_agents' :
          /\ active_agents'[u].last_seen # active_agents[u].last_seen =>
                 /\ StepUpsert(u)
                 /\ active_agents'[u].last_seen > active_agents[u].last_seen
          /\ (StepSweep \/ \E e \in Endpoints : StepMarkUnreachable(e)) =>
                 active_agents'[u].last_seen = active_agents[u].last_seen
      ]_vars

\* a sweep has demoted a record, which keeps the last_seen of its last
\* successful poll
C4_Witness ==
    /\ lastOp.op = "sweep"
    /\ \E u \in DOMAIN active_agents :
          /\ <<u, "unreachable">> \in lastOp.demoted
          /\ active_agents[u].last_seen = 0
          /\ now = INACTIVE_THRESHOLD_SECONDS + 5
\* ------------------------------------------------------------------ C5

\* the change of u's status in this step is a transition of the state machine
\* as the specification draws it
DrawnTransition(u) ==
    LET s == StatusOf(active_agents, u)
        t == StatusOf(active_agents', u)
    IN  \/ s = t
        \/ StepUpsert(u) /\ s \in {"absent", "unreachable"} /\ t = "active"
        \/ StepMarkUnreachable(u) /\ s = "active" /\ t = "unreachable"
        \/ /\ StepSweep
           /\ s \in {"active", "unreachable"}
           /\ t = "inactive"
           /\ Age(u) > INACTIVE_THRESHOLD_SECONDS
        \/ /\ StepSweep
           /\ s \in {"unreachable", "inactive"}
           /\ t = "absent"
           /\ Age(u) > REMOVAL_THRESHOLD_SECONDS

\* the transitions the code has and the drawing leaves out
UndrawnTransition(u) ==
    LET s == StatusOf(active_agents, u)
        t == StatusOf(active_agents', u)
    IN  \/ StepUpsert(u) /\ s = "inactive" /\ t = "active"
        \/ StepMarkUnreachable(u) /\ s = "inactive" /\ t = "unreachable"
        \/ /\ StepSweep
           /\ s = "active"
           /\ t = "absent"
           /\ Age(u) > REMOVAL_THRESHOLD_SECONDS

\* C5 as claimed: every change of an endpoint's status is one of
\* absent -> active and unreachable -> active on success, active ->
\* unreachable on failure, active or unreachable -> inactive by a sweep when
\* stale, unreachable or inactive -> absent by a sweep when very stale.
C5_OnlyDrawnTransitions ==
    [][\A u \in Endpoints : DrawnTransition(u)]_vars

\* C5 as amended: the changes are those transitions and three more, inactive
\* -> active on success, inactive -> unreachable on failure and active ->
\* absent by a sweep when very stale.
C5_OnlyCodeTransitions ==
    [][\A u \in Endpoints : DrawnTransition(u) \/ UndrawnTransition(u)]_vars

\* a failed poll has turned an inactive record unreachable
C5_Witness ==
    /\ lastOp.op = "mark_unreachable"
    /\ lastOp.pre = "inactive"
    /\ active_agents[lastOp.url].status = "unreachable"

\* ------------------------------------------------------------------ C6

\* C6: a status becomes active only in a step that is a successful poll of
\* the record's endpoint; no failed poll and no sweep turns an unreachable
\* or inactive record active.
C6_ActiveOnlyBySuccess ==
    [][\A u \in Endpoints :
          (StatusOf(active_agents', u) = "active"
           /\ StatusOf(active_agents, u) # "active") => StepUpsert(u)]_vars

\* a sweep has run over an unreachable record that is not stale and over an
\* inactive one, and both are as they were
C6_Witness ==
    /\ lastOp.op = "sweep"
    /\ lastOp.demoted = {}
    /\ lastOp.removed = {}
    /\ \E u, v \in DOMAIN active_agents :
          /\ active_agents[u].status = "unreachable"
          /\ Age(u) <= INACTIVE_THRESHOLD_SECONDS
          /\ active_agents[v].status = "inactive"

\* ------------------------------------------------------------------ C7

\* C7: a sweep sets to inactive every active or unreachable record whose age
\* is above the inactive threshold and not above the removal threshold, and
\* changes no status to anything but inactive; so a record last polled
\* successfully 100 s before the sweep is inactive after it, in listAll() and
\* not in listActive().
C7_SweepDemotesStale ==
    /\ [][StepSweep =>
            \A u \in DOMAIN active_agents :
               /\ (/\ active_agents[u].status \in {"active", "unreachable"}
                   /\ Age(u) > INACTIVE_THRESHOLD_SECONDS
                   /\ Age(u) <= REMOVAL_THRESHOLD_SECONDS)
                      => /\ u \in DOMAIN active_agents'
                         /\ active_agents'[u].status = "inactive"
               /\ (/\ u \in DOMAIN active_agents'
                   /\ active_agents'[u].status # active_agents[u].status)
                      => active_agents'[u].status = "inactive"]_vars
    /\ [](lastOp.op = "sweep" =>
            \A u \in DOMAIN active_agents :
               Age(u) = 100 =>
                  /\ active_agents[u].status = "inactive"
                  /\ Cardinality(RecordsFor(get_all_discovered_agents, u)) = 1
                  /\ RecordsFor(get_active_agents, u) = {})

\* the sweep 100 s after the only successful poll of an endpoint has demoted
\* its record from active
C7_Witness ==
    /\ lastOp.op = "sweep"
    /\ \E u \in DOMAIN active_agents :
          /\ <<u, "active">> \in lastOp.demoted
          /\ Age(u) = 100
          /\ active_agents[u].status = "inactive"

\* ------------------------------------------------------------------ C8

\* C8: a sweep removes every record whose age is above the removal threshold,
\* whatever its status, and no other record; listAll() and listActive() do
\* not return a removed record.
C8_SweepRemovesVeryOld ==
    [][StepSweep =>
          \A u \in DOMAIN active_agents :
             /\ (u \notin DOMAIN active_agents')
                    <=> Age(u) > REMOVAL_THRESHOLD_SECONDS
             /\ u \notin DOMAIN active_agents' =>
                    /\ RecordsFor(get_all_discovered_agents', u) = {}
                    /\ RecordsFor(get_active_agents', u) = {}]_vars

\* one sweep has removed an active record and kept a record whose age is
\* exactly the removal threshold
C8_Witness ==
    /\ lastOp.op = "sweep"
    /\ \E u \in Endpoints : <<u, "active">> \in lastOp.removed
    /\ \E v \in DOMAIN active_agents : Age(v) = REMOVAL_THRESHOLD_SECONDS

\* ------------------------------------------------------------------ C9

JsonOf(id) == IF id = "X" THEN JsonX ELSE JsonY

\* C10: the registry holds at most one record per endpoint, and after a
\* successful poll the one record of the endpoint carries the id and the
\* other descriptor fields of that poll, whatever id the record had before.
C10_OneRecordPerEndpoint ==
    /\ \A e \in Endpoints :
          /\ Cardinality(KeysFor(active_agents, e)) <= 1
          /\ Cardinality(RecordsFor(get_all_discovered_agents, e)) <= 1
    /\ lastOp.op = "upsert" =>
          \A k \in KeysFor(active_agents, lastOp.url) :
             /\ active_agents[k].agent_id = lastOp.id
             /\ active_agents[k].name = Get(JsonOf(lastOp.id), "name")
             /\ active_agents[k].description =
                    Get(JsonOf(lastOp.id), "description")
             /\ active_agents[k].capabilities_url =
                    Get(JsonOf(lastOp.id), "capabilities_url")
             /\ active_agents[k].raw_agent_json = JsonOf(lastOp.id)

\* a poll claiming id Y has succeeded for an endpoint whose record had id X,
\* while another poll of the same endpoint is still in flight
C10_Witness ==
    /\ lastOp.op = "upsert"
    /\ lastOp.preId = "X"
    /\ lastOp.id = "Y"
    /\ tasks[lastOp.url] > 0

\* ------------------------------------------------------------------ C11

\* the urls continuous_polling_loop was given
ConfiguredUrls == {agent_urls[i] : i \in DOMAIN agent_urls}

\* C11: in every cycle the sweep runs once, and only after every poll the
\* cycle launched has returned with its upsert or mark-unreachable done.  A
\* sweep step of the loop starts with no poll in flight and with every
\* configured url reconciled in this cycle, it is the first sweep of its
\* cycle, and the loop reaches the sleep of line 163 with exactly one sweep
\* done.
C11_SweepOnceAfterAllPolls ==
    /\ [][StepSweep =>
             /\ pc = "gather" /\ pc' = "sleep"
             /\ InFlight(tasks) = 0
             /\ cycle.polled = ConfiguredUrls
             /\ cycle.sweeps = 0 /\ cycle'.sweeps = 1]_vars
    /\ [](cycle.sweeps <= 1)
    /\ [](pc = "sleep" => cycle.sweeps = 1)
    /\ [][cycle'.sweeps # cycle.sweeps =>
             StepSweep \/ (pc = "poll" /\ cycle'.sweeps = 0)]_vars

\* the sweep of a cycle has run after one poll of the cycle succeeded and the
\* other one failed
C11_Witness ==
    /\ pc = "sleep"
    /\ lastOp.op = "sweep"
    /\ cycle.sweeps = 1
    /\ cycle.polled = ConfiguredUrls
    /\ cycle.failed = {"http://b"}
    /\ InFlight(tasks) = 0

\* ------------------------------------------------------------------ C12

\* C12: cycles never overlap.  Polls are in flight only while the loop is in
\* the gather of the cycle that launched them; a fan-out starts with no poll
\* in flight, so all polls in flight were launched by the same fan-out; and a
\* new cycle starts only after every poll of the cycle before it has
\* returned and that cycle's sweep has run or the cycle ended in the handler
\* of line 167.
C12_CyclesNeverOverlap ==
    /\ [](pc # "gather" => InFlight(tasks) = 0)
    /\ [][pc = "poll" /\ pc' = "gather" =>
             /\ InFlight(tasks) = 0
             /\ \A u \in Endpoints : tasks'[u] = Count(agent_urls, u)]_vars
    /\ [][pc' = "poll" /\ pc # "poll" =>
             /\ cycle.polled = ConfiguredUrls
             /\ cycle.sweeps = 1 \/ cycle.error]_vars

\* the loop is about to start a cycle after a cycle that ended in the handler
\* of line 167 and the sleep of line 170
C12_Witness ==
    /\ pc = "poll"
    /\ cycle.error
    /\ cycle.sweeps = 0
    /\ cycle.polled = ConfiguredUrls
    /\ now >= cycle.slept + POLL_INTERVAL_SECONDS
    /\ InFlight(tasks) = 0

\* ------------------------------------------------------------------ C13

\* the records of reg under the keys other than u
Others(reg, u) == [k \in DOMAIN reg \ {u} |-> reg[k]]

\* C13: polls are isolated from each other's failures.  A failed poll leaves
\* the loop in its gather, leaves the polls of the other urls in flight and
\* their records as they are; a poll of the cycle that is in flight can
\* return with any response whatever the other polls of the cycle did, and a
\* success upserts its record; when the gather is over every configured url
\* has reconciled its outcome, and the sweep can run.
C13_PollsIsolated ==
    /\ [][\A u \in Endpoints :
             StepMarkUnreachable(u) =>
                 /\ pc' = pc
                 /\ \A v \in Endpoints \ {u} : tasks'[v] = tasks[v]
                 /\ Others(active_agents', u) = Others(active_agents, u)]_vars
    /\ [][\A u \in Endpoints :
             StepUpsert(u) /\ cycle.failed # {} =>
                 /\ u \in DOMAIN active_agents'
                 /\ active_agents'[u].status = "active"
                 /\ active_agents'[u].last_seen = now
                 /\ u \in cycle'.polled \ cycle'.failed]_vars
    /\ [](pc = "gather" =>
             \A u \in Endpoints : tasks[u] > 0 =>
                 \A r \in Responses : ENABLED PollComplete(u, r))
    /\ [](pc \in {"sleep", "error_sleep"} => cycle.polled = ConfiguredUrls)
    /\ [](pc = "gather" /\ InFlight(tasks) = 0 =>
             /\ cycle.polled = ConfiguredUrls
             /\ ENABLED LoopSweep)

\* in one cycle the poll of http://a failed, then the poll of http://b
\* succeeded and upserted its record
C13_Witness ==
    /\ pc = "gather"
    /\ lastOp.op = "upsert"
    /\ lastOp.url = "http://b"
    /\ cycle.failed = {"http://a"}
    /\ cycle.polled = ConfiguredUrls
    /\ active_agents["http://b"].last_seen = now

\* ------------------------------------------------------------------ C14

\* one response for each failure category of a poll: timeout, connection
\* error, HTTP 401, 403, 404, another non-2xx status (with and without a
\* well-formed agent.json as body), a 2xx body that is no JSON, a 2xx JSON
\* body without an id
FailureCategories ==
    {[kind |-> "timeout", status |-> 0, body |-> NotJson],
     [kind |-> "connect_error", status |-> 0, body |-> NotJson],
     [kind |-> "http", status |-> 401, body |-> NotJson],
     [kind |-> "http", status |-> 403, body |-> NotJson],
     [kind |-> "http", status |-> 404, body |-> NotJson],
     [kind |-> "http", status |-> 500, body |-> NotJson],
     [kind |-> "http", status |-> 500, body |-> JsonX],
     [kind |-> "http", status |-> 200, body |-> NotJson],
     [kind |-> "http", status |-> 200, body |-> JsonNoId]}

\* C14: every failure category of a poll has the same effect.  A poll in
\* flight can end with a response of each category; the step it then takes
\* sets the status of the endpoint's record to "unreachable" and changes
\* nothing else if the record exists, leaves the registry as it is if not,
\* returns None and upserts nothing.
C14_FailuresSameEffect ==
    /\ [](FailureCategories \subseteq Responses)
    /\ [](\A u \in Endpoints : tasks[u] > 0 =>
             \A r \in FailureCategories : ENABLED PollComplete(u, r))
    /\ [][\A u \in Endpoints, r \in FailureCategories :
             tasks'[u] < tasks[u] /\ PollComplete(u, r) =>
                 /\ active_agents' =
                        IF u \in DOMAIN active_agents
                        THEN [active_agents EXCEPT ![u].status = "unreachable"]
                        ELSE active_agents
                 /\ lastOp'.op = "mark_unreachable"
                 /\ lastOp'.id = None
                 /\ succeeded' = succeeded]_vars

\* a poll failed for an endpoint whose record was active: the record is
\* unreachable with its last_seen in the past, while the other endpoint, never
\* polled with success, has no record
C14_Witness ==
    /\ lastOp.op = "mark_unreachable"
    /\ lastOp.id = None
    /\ lastOp.pre = "active"
    /\ lastOp.url \in DOMAIN active_agents
    /\ active_agents[lastOp.url].status = "unreachable"
    /\ active_agents[lastOp.url].last_seen < now
    /\ DOMAIN active_agents = {lastOp.url}
    /\ succeeded = {lastOp.url}

\* ------------------------------------------------------------------ C15

\* C15: every read returns an independent copy.  The record a caller got
\* from get_all_discovered_agents() or get_active_agents() and kept still
\* has the contents it was returned with, whatever polls and sweeps ran
\* after the read.
C15_ReadsAreCopies ==
    held # << >> => held[1].obj = held[1].returned

\* a caller holds a record it was given as active, and the object now says
\* "unreachable" because a later poll of the endpoint failed
C15_HeldRecordChanged ==
    /\ held # << >>
    /\ held[1].returned.status = "active"
    /\ held[1].obj.status = "unreachable"
    /\ held[1].aliased
    /\ lastOp.op = "mark_unreachable"
    /\ lastOp.url = held[1].key

\* ------------------------------------------------------------------ C16

\* this step is a read: a caller was handed a record
StepRead ==
    /\ held' # held
    /\ held' # << >>
    /\ active_agents' = active_agents
    /\ tasks' = tasks
    /\ crit' = crit

\* C16: the accesses to the registry are serialized.  The lock is held
\* exactly while the sweep is inside its "async with" block; an upsert or a
\* mark-unreachable runs only while no sweep is inside its block and has left
\* its own block when its step ends; the statements of the sweep add up to
\* Liveness applied to the registry the sweep started with; and a read runs
\* only while no mutation is in progress and returns a record of the
\* registry as it is then.
C16_AccessesSerialized ==
    /\ [](lock \in {"free", "sweep"})
    /\ [](lock = "sweep" <=> crit.pc # "idle")
    /\ [][\A u \in Endpoints :
             StepUpsert(u) \/ StepMarkUnreachable(u) =>
                 /\ lock = "free" /\ crit.pc = "idle"
                 /\ lock' = "free"]_vars
    /\ [](crit.pc = "delete" /\ crit.remove = {} =>
             active_agents = Liveness(crit.begin, crit.t))
    /\ [][crit.pc # "idle" /\ crit'.pc = "idle" =>
             active_agents' = Liveness(crit.begin, crit.t)]_vars
    /\ [][StepRead =>
             /\ lock = "free"
             /\ crit.pc = "idle"
             /\ held'[1].key \in DOMAIN active_agents
             /\ held'[1].returned = active_agents[held'[1].key]]_vars

\* a sweep deleted one record and demoted the other one, and a caller that
\* read after it was handed the demoted record
C16_Witness ==
    /\ lastOp.op = "sweep"
    /\ lastOp.removed # {}
    /\ lastOp.demoted # {}
    /\ lock = "free"
    /\ crit = Idle
    /\ held # << >>
    /\ held[1].key \in DOMAIN active_agents
    /\ held[1].returned = active_agents[held[1].key]
    /\ held[1].returned.status = "inactive"

\* ------------------------------------------------------------------ C17

C18_CancelStopsPromptly ==
    /\ [](pc \in {"sleep", "error_sleep"} => ENABLED LoopCancel)
    /\ [][pc' = "cancelled" /\ pc # "cancelled" =>
             /\ now' = now
             /\ active_agents' = active_agents
             /\ cycle' = cycle
             /\ InFlight(tasks') = 0]_vars
    /\ [](lastOp.op = "cancel" => pc = "cancelled")
    /\ [][pc = "cancelled" =>
             /\ pc' = "cancelled"
             /\ tasks' = tasks
             /\ active_agents' = active_agents
             /\ cycle' = cycle]_vars

\* the loop was cancelled in the sleep that follows a loop-level error, after
\* a part of the sleep had passed and before its end
C18_Witness ==
    /\ pc = "cancelled"
    /\ lastOp.op = "cancel"
    /\ cycle.error
    /\ now > cycle.slept
    /\ now < cycle.slept + POLL_INTERVAL_SECONDS
    /\ InFlight(tasks) = 0

\* ------------------------------------------------------------------ C19

\* C19: a cancellation takes effect only at a cycle boundary.  When the loop
\* has stopped because of a cancellation, every poll launched in its last
\* cycle has returned with its result reconciled and the sweep of that cycle
\* has run (a cycle that ended in the handler of line 167 has no sweep to
\* wait for).
C19_CancelOnlyAtBoundary ==
    pc = "cancelled" /\ ~cycle.error =>
        /\ cycle.polled = ConfiguredUrls
        /\ cycle.sweeps = 1

\* the loop was cancelled in its gather when one poll of the cycle had
\* upserted its record and the other had not returned: the registry holds
\* the result of a part of the cycle, and no sweep has run
C19_CancelledMidCycle ==
    /\ pc = "cancelled"
    /\ lastOp.op = "cancel"
    /\ cycle.polled = {"http://a"}
    /\ cycle.failed = {}
    /\ cycle.sweeps = 0
    /\ ~cycle.error
    /\ "http://a" \in DOMAIN active_agents
    /\ active_agents["http://a"].last_seen = cycleStart

\* ------------------------------------------------------------------ C20

\* the clock of the model has a reading at which the sleep in progress is over
ClockHasRoom ==
    \E t \in ClockReadings : t >= cycle.slept + POLL_INTERVAL_SECONDS

\* C20: a loop-level error never ends the loop.  An exception that reaches
\* the handler of line 167 puts the loop into the sleep of line 170 and
\* nowhere else; that sleep ends only in a new cycle, no earlier than one
\* poll interval after it began, or by a cancellation; and, when the timers
\* fire, a loop in that sleep is followed by the fan-out of a further cycle
\* unless it is cancelled.
C20_ErrorNeverEndsLoop ==
    /\ [](pc \in {"poll", "gather", "sleep", "error_sleep", "cancelled"})
    /\ [][cycle'.error /\ ~cycle.error =>
             pc = "gather" /\ pc' = "error_sleep"]_vars
    /\ [][pc = "error_sleep" =>
             pc' \in {"error_sleep", "poll", "cancelled"}]_vars
    /\ [][pc = "error_sleep" /\ pc' = "poll" =>
             now' >= cycle.slept + POLL_INTERVAL_SECONDS]_vars
    /\ (pc = "error_sleep" /\ ClockHasRoom)
           ~> (pc = "cancelled" \/ (pc = "gather" /\ cycle.afterError))

\* after a cycle that ended in the handler of line 167 the loop has run a
\* further cycle to its sweep
C20_Witness ==
    /\ pc = "sleep"
    /\ cycle.afterError
    /\ cycle.sweeps = 1
    /\ cycle.polled = ConfiguredUrls
    /\ cycleStart >= POLL_INTERVAL_SECONDS

\* ------------------------------------------------------------------ start_continuous_polling

\* values of AGENT_URLS: unset, "", " ,", " http://a ,http://b,",
\* "http://a,http://a" and "http://b"
EnvValues ==
    {Unset,
     EnvString(<< << >> >>),
     EnvString(<< <<" ">>, << >> >>),
     EnvString(<< <<" ", "http://a", " ">>, <<"http://b">>, << >> >>),
     EnvString(<< <<"http://a">>, <<"http://a">> >>),
     EnvString(<< <<"http://b">> >>)}

\* the application before its startup task has run
StartInit ==
    /\ active_agents = << >>
    /\ now = 0
    /\ tasks = [u \in Endpoints |-> 0]
    /\ pc = "start"
    /\ cycleStart = 0
    /\ succeeded = {}
    /\ lastOp = NoOp
    /\ cycle = NewCycle
    /\ lock = "free"
    /\ crit = Idle
    /\ held = << >>
    /\ AGENT_URLS \in EnvValues
    /\ req = NoRequest
    /\ orch = OrchIdle

\* Start with the slip of entering the loop whatever AGENT_URLS holds
StartAlways ==
    /\ pc = "start"
    /\ pc' = "poll"
    /\ UNCHANGED <<active_agents, now, tasks, cycleStart, succeeded, lastOp>>
    /\ UNCHANGED <<cycle, lock, crit, held, AGENT_URLS, req, orch>>

\* lines 173-191: the startup task returns when AGENT_URLS is unset or empty
\* or has no entry left after parsing, and enters the loop otherwise
Start ==
    /\ pc = "start"
    /\ pc' = IF ~AGENT_URLS.set \/ AGENT_URLS.pieces = << << >> >>
             THEN "returned"
             ELSE IF ParseUrls(AGENT_URLS.pieces) = << >>
                  THEN "returned"
                  ELSE "poll"
    /\ UNCHANGED <<active_agents, now, tasks, cycleStart, succeeded, lastOp>>
    /\ UNCHANGED <<cycle, lock, crit, held, AGENT_URLS, req, orch>>

StartNext ==
    \/ Start \/ FanOut \/ GatherPoll \/ GatherWait \/ LoopSweep \/ LoopError
    \/ SleepWait \/ LoopSleep \/ LoopErrorSleep \/ LoopCancel

StartSpec == StartInit /\ [][StartNext]_vars

\* ------------------------------------------------------------------ C21

C22_StrictThresholds ==
    [][StepSweep =>
          /\ INACTIVE_THRESHOLD_SECONDS = 95
          /\ REMOVAL_THRESHOLD_SECONDS = 475
          /\ \A u \in DOMAIN active_agents :
                /\ Age(u) <= 95 =>
                      /\ u \in DOMAIN active_agents'
                      /\ active_agents'[u] = active_agents[u]
                /\ active_agents[u].status = "inactive" /\ Age(u) <= 475 =>
                      /\ u \in DOMAIN active_agents'
                      /\ active_agents'[u] = active_agents[u]
                /\ Age(u) = 475 =>
                      /\ u \in DOMAIN active_agents'
                      /\ active_agents'[u] =
                             [active_agents[u] EXCEPT !.status = "inactive"]
                /\ Age(u) = 95 =>
                      /\ u \in DOMAIN active_agents'
                      /\ active_agents'[u].status = active_agents[u].status]_vars

\* a sweep has just demoted a record of age exactly 475 seconds and kept it
C22_Witness ==
    /\ lastOp.op = "sweep"
    /\ \E u \in DOMAIN active_agents :
          /\ <<u, "unreachable">> \in lastOp.demoted
          /\ Age(u) = 475
          /\ active_agents[u].status = "inactive"

\* ------------------------------------------------------------------ C26

\* this step is a sweep that finds the record of e older than the inactive
\* threshold
LateSweep(e) ==
    /\ StepSweep
    /\ e \in DOMAIN active_agents
    /\ Age(e) > INACTIVE_THRESHOLD_SECONDS

\* C26: an endpoint whose polls all succeed and whose record is never older
\* than the inactive threshold at a sweep is active from its first successful
\* poll on.  A successful poll of e leaves its record active; from a state
\* where the record is active, every step that is neither a failed poll of e
\* nor a sweep that finds it too old (the responses to the other endpoints,
\* the steps of the clock, the sweeps in time) leaves it active and returned
\* by get_active_agents(), and a sweep in time leaves the record as it is
C26_AlwaysSucceedingStaysActive ==
    [][\A e \in Endpoints :
          /\ StepUpsert(e) => StatusOf(active_agents', e) = "active"
          /\ /\ StatusOf(active_agents, e) = "active"
             /\ ~StepMarkUnreachable(e)
             /\ ~LateSweep(e)
             => /\ StatusOf(active_agents', e) = "active"
                /\ RecordsFor(get_active_agents', e) # {}
          /\ /\ StatusOf(active_agents, e) = "active"
             /\ StepSweep
             /\ ~LateSweep(e)
             => active_agents'[e] = active_agents[e]]_vars

\* a sweep has run when the record of an endpoint was exactly as old as the
\* inactive threshold: it is still active, and the sweep has demoted the
\* record of another endpoint
C26_Witness ==
    /\ lastOp.op = "sweep"
    /\ \E e \in DOMAIN active_agents :
          /\ active_agents[e].status = "active"
          /\ Age(e) = INACTIVE_THRESHOLD_SECONDS
          /\ RecordsFor(get_active_agents, e) # {}
          /\ \E o \in Endpoints \ {e}, st \in {"active", "unreachable"} :
                <<o, st>> \in lastOp.demoted

\* ------------------------------------------------------------------ routes of the proxy

\* models.py 16-23 and main.py 61, 65: the DiscoveredAgent built from
\* agent.model_dump(exclude={'raw_agent_json'})
DiscoveredAgent(agent) ==
    [f \in DOMAIN agent \ {"raw_agent_json"} |-> agent[f]]

\* GET /discover: the body of the response
discover_agents(only_active) ==
    LET agents == IF only_active THEN get_active_agents
                  ELSE get_all_discovered_agents
    IN  [i \in DOMAIN agents |-> DiscoveredAgent(agents[i])]

\* GET /discover/raw: the body of the response, serialised as List[AgentInfo]
discover_agents_raw == get_all_discovered_agents

\* the bodies the routes of the proxy that return records can answer with
RouteResponses ==
    {discover_agents(TRUE), discover_agents(FALSE), discover_agents_raw}

\* the fields of a record of the query surface
ExternalFields ==
    {"agent_id", "base_url", "name", "description", "capabilities_url",
     "last_seen", "status"}

\* ------------------------------------------------------------------ C24

\* C24: no response of a route of the proxy contains a record's raw metadata:
\* every record returned has exactly the fields id, endpoint, name,
\* description, capabilitiesUrl, lastSeen and status
C24_RawMetadataInternalOnly ==
    \A body \in RouteResponses :
        \A i \in DOMAIN body : DOMAIN body[i] = ExternalFields

\* the record GET /discover/raw returns carries the captured agent.json
C24_RawReturned ==
    \E i \in DOMAIN discover_agents_raw :
        /\ "raw_agent_json" \in DOMAIN discover_agents_raw[i]
        /\ discover_agents_raw[i].raw_agent_json = JsonX

\* ------------------------------------------------------------------ polls with their requests traced

\* lines 25-39: what get_gcp_id_token returns when fetch_id_token returns a
\* token or raises: every exception is caught and gives None
get_gcp_id_token(outcome) == IF outcome = "token" THEN "tok" ELSE None

\* what fetch_id_token can do
FetchOutcomes == {"token", "DefaultCredentialsError", "Exception"}

\* lines 43-60 for one poll at a time: the token is fetched, the request is
\* sent with the headers of lines 53-54, and the trace records it
TracedPoll ==
    /\ InFlight(tasks) = 0
    /\ \E u \in Endpoints, outcome \in FetchOutcomes :
          LET token == get_gcp_id_token(outcome)
          IN  /\ PollLaunch(u, token)
              /\ req' = [url |-> u, token |-> token,
                         headers |-> Headers(token)]

TokenNext == TracedPoll \/ Reply \/ Sweep \/ Tick

TokenSpec == Init /\ [][TokenNext]_vars

\* ------------------------------------------------------------------ C23

\* C23: a token failure is fail-open.  A poll started after the token fetch
\* returned None still sends its request, without an Authorization header
\* (with one when there is a token), and sending changes nothing in the
\* registry; the poll then ends by its response alone: it upserts an active
\* record with the id of the descriptor or marks the endpoint unreachable
\* as a poll with a token does, so no endpoint is marked unreachable before
\* its response has come
C23_TokenFailOpen ==
    [][\A u \in Endpoints :
          /\ req' # req =>
                /\ tasks'[req'.url] = tasks[req'.url] + 1
                /\ active_agents' = active_agents
                /\ req'.token = None => DOMAIN req'.headers = {}
                /\ req'.token # None =>
                      /\ DOMAIN req'.headers = {"Authorization"}
                      /\ req'.headers.Authorization = <<"Bearer", req'.token>>
          /\ tasks'[u] > tasks[u] => req'.url = u /\ tasks'[u] = 1
          /\ StatusOf(active_agents', u) = "unreachable"
                /\ StatusOf(active_agents, u) # "unreachable"
                => StepMarkUnreachable(u) /\ req.url = u
          /\ StepUpsert(u) /\ req.token = None =>
                /\ req.url = u
                /\ active_agents'[u].status = "active"
                /\ active_agents'[u].agent_id = lastOp'.id
                /\ lastOp'.id \in {"X", "Y"}
          /\ StepMarkUnreachable(u) /\ req.token = None =>
                /\ req.url = u
                /\ active_agents' = MarkUnreachable(active_agents, u)]_vars

\* a poll sent without a token, after a poll of the same endpoint had marked
\* it unreachable, got a descriptor and has upserted the record as active
C23_Witness ==
    /\ req.token = None
    /\ DOMAIN req.headers = {}
    /\ lastOp.op = "upsert"
    /\ lastOp.url = req.url
    /\ lastOp.pre = "unreachable"
    /\ StatusOf(active_agents, req.url) = "active"

\* ------------------------------------------------------------------ C27

\* the urls that the text of AGENT_URLS names: what stands between the commas
\* apart from blanks
UrlsNamed ==
    UNION {{AGENT_URLS.pieces[i][j] : j \in DOMAIN AGENT_URLS.pieces[i]} :
               i \in DOMAIN AGENT_URLS.pieces} \ {" "}

\* C27: every key of the registry is a configured url and is the base_url of
\* its record, so the registry holds at most as many records as urls are
\* configured; when AGENT_URLS is unset or names no url, the loop is never
\* entered, no request is sent and the registry stays empty
C27_KeysAreConfiguredUrls ==
    /\ \A k \in DOMAIN active_agents :
          /\ k \in UrlsNamed
          /\ active_agents[k].base_url = k
    /\ Cardinality(DOMAIN active_agents) <= Cardinality(UrlsNamed)
    /\ ~AGENT_URLS.set \/ UrlsNamed = {} =>
          /\ pc \in {"start", "returned"}
          /\ active_agents = << >>
          /\ \A u \in Endpoints : tasks[u] = 0

\* AGENT_URLS is " http://a ,http://b," and both urls have their record
C27_Witness ==
    /\ Len(AGENT_URLS.pieces) = 3
    /\ DOMAIN active_agents = {"http://a", "http://b"}
    /\ \A k \in DOMAIN active_agents : active_agents[k].base_url = k

\* ------------------------------------------------------------------ cycles of exactly one poll interval

\* the endpoint that answers in cycle 0 and never again
Decaying == "http://a"

\* GatherPoll for the run in which Decaying answers the poll of cycle 0 with
\* a descriptor and fails every later poll; the other endpoint answers as it
\* likes
DecayGatherPoll ==
    /\ pc = "gather"
    /\ crit.pc = "idle"
    /\ \E u \in Endpoints, r \in Responses :
          /\ u = Decaying => (PollResult(r) # None <=> now = 0)
          /\ PollComplete(u, r)
          /\ cycle' = [cycle EXCEPT
                          !.polled = @ \cup {u},
                          !.failed = IF PollResult(r) = None
                                     THEN @ \cup {u} ELSE @ \ {u}]

\* line 163 when polls and sweep take no time: the next cycle begins exactly
\* POLL_INTERVAL_SECONDS after the last one began
ExactSleep ==
    /\ pc = "sleep"
    /\ cycle.slept + POLL_INTERVAL_SECONDS <= MaxTime
    /\ now' = cycle.slept + POLL_INTERVAL_SECONDS
    /\ pc' = "poll"
    /\ lastOp' = ClockOp
    /\ UNCHANGED <<active_agents, tasks, cycleStart, succeeded>>
    /\ UNCHANGED <<cycle, lock, crit, held>>
    /\ UNCHANGED <<AGENT_URLS, req, orch>>

DecayNext == FanOut \/ DecayGatherPoll \/ LoopSweep \/ ExactSleep

DecaySpec == LoopInit /\ [][DecayNext]_vars

\* The loop is never cancelled: the event loop resumes it when it is ready
\* (fan-out, sweep after gather), every request is answered or fails within
\* its timeout, and the timer of the sleep fires.
DecayFairSpec ==
    /\ DecaySpec
    /\ WF_vars(FanOut) /\ WF_vars(DecayGatherPoll)
    /\ WF_vars(LoopSweep) /\ WF_vars(ExactSleep)

\* ------------------------------------------------------------------ C25

\* the number of the cycle in progress, cycles lasting exactly one interval
CycleNo == now \div POLL_INTERVAL_SECONDS

\* the sweep of the cycle in progress has run
Swept == pc = "sleep"

\* C25: with cycles of exactly 30 seconds and no cancellation, an endpoint
\* that answered in cycle 0 and fails every later poll is not active once its
\* first failed poll is handled; after the sweeps of the missed cycles 1 to 3
\* it is unreachable, from the sweep of the 4th missed cycle on it is
\* inactive after every sweep, it is in the registry until the sweep of the
\* 16th missed cycle and absent after it; and its record is eventually
\* deleted
C25_MissedCyclesDecay ==
    /\ [](/\ \/ CycleNo >= 1 /\ pc # "poll" /\ Decaying \in cycle.polled
             \/ CycleNo >= 2
             =>
                StatusOf(active_agents, Decaying) # "active"
          /\ Swept /\ CycleNo \in 1..3 =>
                StatusOf(active_agents, Decaying) = "unreachable"
          /\ Swept /\ CycleNo \in 4..15 =>
                StatusOf(active_agents, Decaying) = "inactive"
          /\ Swept /\ CycleNo >= 16 =>
                StatusOf(active_agents, Decaying) = "absent")
    /\ <>(Decaying \in succeeded /\ Decaying \notin DOMAIN active_agents)

\* the sweep of the 16th missed cycle has just removed the record, which
\* the failed poll of that cycle had found inactive
C25_Witness ==
    /\ Swept
    /\ CycleNo = 16
    /\ Decaying \in succeeded
    /\ <<Decaying, "unreachable">> \in lastOp.removed
    /\ Decaying \notin DOMAIN active_agents

\* ------------------------------------------------------------------ the services the orchestrator calls

\* agent_transaction_detail main.py 23-27: MOCK_TRANSACTIONS, in the order of
\* the dict (amounts in cents)
MOCK_TRANSACTIONS ==
    << [transaction_id |-> "TX12345", amount |-> 15075, currency |-> "USD",
        merchant |-> "Coffee Shop", status |-> "completed"],
       [transaction_id |-> "TX67890", amount |-> 2500, currency |-> "USD",
        merchant |-> "Bookstore", status |-> "completed"],
       [transaction_id |-> "TX11223", amount |-> 50000, currency |-> "USD",
        merchant |-> "Electronics Store", status |-> "pending"] >>

\* the transaction ids a dispute is requested for: the three of the mock data,
\* one the service does not know, and one unknown id whose text holds the
\* word "merchant"
TxIds == {"TX12345", "TX67890", "TX11223", "TX99999", "merchant-7"}

\* the ids whose text, in lower case, holds "amount >" or "merchant"
IdsNamingAFilter == {"merchant-7"}

\* the merchants whose name, in lower case, holds "store"
StoreMerchants == {"Bookstore", "Electronics Store"}

\* the transactions of seq that are in the set txs, in the order of seq
RECURSIVE SelectRows(_, _)
SelectRows(seq, txs) ==
    IF seq = << >> THEN << >>
    ELSE (IF Head(seq) \in txs THEN <<Head(seq)>> ELSE << >>)
         \o SelectRows(Tail(seq), txs)

\* the transactions of the mock data
MockRows == {MOCK_TRANSACTIONS[i] : i \in DOMAIN MOCK_TRANSACTIONS}

\* seq[:n]
FirstRows(seq, n) == SubSeq(seq, 1, IF n < Len(seq) THEN n ELSE Len(seq))

\* agent_transaction_detail main.py 51-58: GET /get_transaction_details; the
\* 404 is NoDetails
get_transaction_details(transaction_id) ==
    LET hit == SelectRows(MOCK_TRANSACTIONS,
                          {tx \in MockRows : tx.transaction_id = transaction_id})
    IN  IF hit # << >> THEN hit[1] ELSE NoDetails

\* orchestrator main.py 36: the text of the fallback query, by what the
\* service reads in it
FallbackSql(transaction_id) ==
    [select |-> "*", from |-> "transactions",
     where_transaction_id |-> transaction_id, limit |-> 1]

\* agent_transaction_detail main.py 65-82: POST /query_bigquery, the rows of
\* the response.  The text of the query is searched for "amount >" and
\* "merchant", which the fallback query holds only inside the id; its WHERE
\* clause is not evaluated
query_bigquery(sql) ==
    IF sql.where_transaction_id \in IdsNamingAFilter
    THEN FirstRows(SelectRows(MOCK_TRANSACTIONS,
                              {tx \in MockRows :
                                   \/ tx.amount > 10000
                                   \/ tx.merchant \in StoreMerchants}),
                   sql.limit)
    ELSE FirstRows(MOCK_TRANSACTIONS, 2)

\* the reasons of a dispute, by the words the policy service looks for
Reasons ==
    {[text |-> "Duplicate charge", words |-> {"duplicate"}],
     [text |-> "Unauthorized charge on card", words |-> {"unauthorized"}],
     [text |-> "Item not received", words |-> {"not received"}]}

\* agent_dispute_policy main.py 44-84: POST /check_dispute_policy
check_dispute_policy(transaction, reason) ==
    [transaction_id |-> transaction.transaction_id,
     policy_decision |->
        IF transaction.amount < 1000 /\ "not received" \notin reason.words
        THEN "Approved"
        ELSE IF /\ transaction.amount < 5000
                /\ reason.words \cap {"duplicate", "not received"} # {}
        THEN "Approved"
        ELSE IF transaction.amount >= 50000 THEN "NeedsReview"
        ELSE IF "unauthorized" \in reason.words THEN "NeedsReview"
        ELSE IF transaction.status = "pending" THEN "Rejected"
        ELSE "NeedsReview"]

\* ------------------------------------------------------------------ process_dispute_request

\* orchestrator main.py 21: required_agents
required_agents == {"Transaction_Detail_Agent", "Dispute_Policy_Agent"}

\* what GET /discover?only_active=true can give the orchestrator: an error,
\* or the ids of the agents of the proxy's active list
DiscoverResponses ==
    {[ok |-> FALSE, agents |-> {}]}
    \cup {[ok |-> TRUE, agents |-> ids] : ids \in SUBSET required_agents}

\* the variables of the proxy, which the orchestrator does not touch
proxyVars ==
    <<active_agents, now, tasks, pc, cycleStart, succeeded, lastOp, cycle,
      lock, crit, held, AGENT_URLS, req>>

\* dispute_outcome: which of the strings of lines 22-70, for which id, with
\* which decision
Outcome(kind, decision) ==
    [kind |-> kind, transaction_id |-> orch.transaction_id,
     decision |-> decision]

\* a call of a method of the A2AClient, and whether it gave a result
Call(op, found) == [op |-> op, found |-> found]

\* lines 18-25: the call of process_dispute_request, up to the first await
OrchStart ==
    /\ orch.pc = "idle"
    /\ \E T \in TxIds, reason \in Reasons :
          orch' = [OrchIdle EXCEPT
                      !.pc = "discover",
                      !.transaction_id = T,
                      !.reason = reason,
                      !.dispute_outcome =
                          [kind |-> "Failed: Could not complete process.",
                           transaction_id |-> T, decision |-> None]]
    /\ UNCHANGED proxyVars

\* lines 26-29 and client.py 20-53: discover_agents returns True when the
\* proxy answered and no required id is missing from its list
OrchDiscover ==
    /\ orch.pc = "discover"
    /\ \E resp \in DiscoverResponses :
          LET found == resp.ok /\ required_agents \subseteq resp.agents
          IN  orch' = [orch EXCEPT
                          !.calls = Append(@, Call("discover_agents", found)),
                          !.discovered_agents =
                              IF resp.ok THEN resp.agents ELSE @,
                          !.dispute_outcome =
                              IF found THEN @
                              ELSE Outcome("Failed: Required agents not found.",
                                           None),
                          !.pc = IF found THEN "details" ELSE "finally"]
    /\ UNCHANGED proxyVars

\* lines 32-34 and client.py 59-79: the lookup by id; a 404, an error of the
\* request or of the response gives None
OrchDetails ==
    /\ orch.pc = "details"
    /\ \E answered \in BOOLEAN :
          LET details ==
                  IF /\ "Transaction_Detail_Agent" \in orch.discovered_agents
                     /\ answered
                  THEN get_transaction_details(orch.transaction_id)
                  ELSE NoDetails
          IN  orch' = [orch EXCEPT
                          !.calls = Append(@, Call("get_transaction_details",
                                                   details # NoDetails)),
                          !.transaction_details = details,
                          !.pc = IF details # NoDetails THEN "policy"
                                 ELSE "query"]
    /\ UNCHANGED proxyVars

\* lines 35-51 and client.py 81-98: the fallback query; the first row of a
\* non-empty result becomes the transaction details
OrchQuery ==
    /\ orch.pc = "query"
    /\ \E answered \in BOOLEAN :
          LET results ==
                  IF /\ "Transaction_Detail_Agent" \in orch.discovered_agents
                     /\ answered
                  THEN query_bigquery(FallbackSql(orch.transaction_id))
                  ELSE << >>
              details == IF results # << >> THEN results[1] ELSE NoDetails
          IN  orch' = [orch EXCEPT
                          !.calls = Append(@, Call("query_transactions",
                                                   results # << >>)),
                          !.transaction_details = details,
                          !.dispute_outcome =
                              IF details # NoDetails THEN @
                              ELSE Outcome("Failed: Transaction details not found.",
                                           None),
                          !.pc = IF details # NoDetails THEN "policy"
                                 ELSE "finally"]
    /\ UNCHANGED proxyVars

\* lines 56-66 and client.py 100-117: the policy check with the details
\* obtained; an error of the request or of the response gives None
OrchPolicy ==
    /\ orch.pc = "policy"
    /\ \E answered \in BOOLEAN :
          LET ok == "Dispute_Policy_Agent" \in orch.discovered_agents
                    /\ answered
              policy_result == check_dispute_policy(orch.transaction_details,
                                                    orch.reason)
          IN  orch' = [orch EXCEPT
                          !.calls = Append(@, Call("check_dispute_policy", ok)),
                          !.submitted = orch.transaction_details,
                          !.dispute_outcome =
                              IF ok
                              THEN Outcome("Success: Dispute - Decision",
                                           policy_result.policy_decision)
                              ELSE Outcome("Failed: Could not get policy check.",
                                           None),
                          !.pc = "finally"]
    /\ UNCHANGED proxyVars

\* OrchException without the handler of line 68: the exception leaves the
\* function after the finally block
OrchExceptionUncaught ==
    /\ orch.pc \in {"discover", "details", "query", "policy"}
    /\ orch' = [orch EXCEPT
                   !.calls = Append(@, Call("close", TRUE)),
                   !.closed = @ + 1,
                   !.pc = "done",
                   !.returned = "raised"]
    /\ UNCHANGED proxyVars

\* lines 68-70: an exception raised in the try block (an input of the model:
\* the methods of the client catch their own) is caught and becomes the
\* outcome
OrchException ==
    /\ orch.pc \in {"discover", "details", "query", "policy"}
    /\ orch' = [orch EXCEPT
                   !.dispute_outcome =
                       Outcome("Failed: Unexpected error during processing.",
                               None),
                   !.pc = "finally"]
    /\ UNCHANGED proxyVars

\* lines 71-75 (and the returns of lines 29 and 51, which pass through the
\* finally block): the client is closed and the outcome returned
OrchFinally ==
    /\ orch.pc = "finally"
    /\ orch' = [orch EXCEPT
                   !.calls = Append(@, Call("close", TRUE)),
                   !.closed = @ + 1,
                   !.pc = "done",
                   !.returned = "value"]
    /\ UNCHANGED proxyVars

OrchNext ==
    \/ OrchStart \/ OrchDiscover \/ OrchDetails \/ OrchQuery \/ OrchPolicy
    \/ OrchException \/ OrchFinally

OrchSpec == Init /\ [][OrchNext]_vars

\* ------------------------------------------------------------------ C28

\* the positions of the calls of op in the calls made so far
CallsOf(op) == {i \in DOMAIN orch.calls : orch.calls[i].op = op}

\* C28: process_dispute_request makes its calls in a fixed order.  The
\* lookup by id is the second call, after a discovery that found both
\* required agents; the fallback query is the third, after a lookup by id
\* that gave nothing; the policy check is made at most once, directly after
\* the lookup or the query that gave the details, with these details; a step
\* that gives nothing it can go on with is followed only by close; close is
\* called at most once and last, and the function ends having closed the
\* client once and returning an outcome string, never raising
C28_CallOrder ==
    LET c == orch.calls
    IN  /\ \A i \in CallsOf("discover_agents") : i = 1
        /\ \A i \in CallsOf("get_transaction_details") :
              /\ i = 2
              /\ c[1] = Call("discover_agents", TRUE)
              /\ required_agents \subseteq orch.discovered_agents
        /\ \A i \in CallsOf("query_transactions") :
              /\ i = 3
              /\ c[2] = Call("get_transaction_details", FALSE)
        /\ Cardinality(CallsOf("check_dispute_policy")) <= 1
        /\ \A i \in CallsOf("check_dispute_policy") :
              /\ i > 1
              /\ c[i - 1] \in {Call("get_transaction_details", TRUE),
                               Call("query_transactions", TRUE)}
              /\ orch.submitted # NoDetails
              /\ orch.submitted = orch.transaction_details
        /\ \A i \in DOMAIN c :
              /\ c[i].op # "close" /\ ~c[i].found /\ i < Len(c) =>
                    c[i + 1].op \in
                        IF c[i].op = "get_transaction_details"
                        THEN {"query_transactions", "close"}
                        ELSE {"close"}
              /\ c[i].op = "close" => i = Len(c)
        /\ Cardinality(CallsOf("close")) = orch.closed
        /\ orch.closed <= 1
        /\ orch.returned # "raised"
        /\ orch.pc = "done" <=> orch.returned = "value"
        /\ orch.returned = "value" =>
              /\ orch.closed = 1
              /\ orch.dispute_outcome.kind # None
              /\ orch.dispute_outcome.transaction_id = orch.transaction_id

\* the function has returned the outcome of an unexpected exception raised
\* after the fallback query found details, having closed the client once
C28_Witness ==
    /\ orch.returned = "value"
    /\ orch.closed = 1
    /\ orch.dispute_outcome.kind = "Failed: Unexpected error during processing."
    /\ Len(orch.calls) = 4
    /\ orch.calls[3] = Call("query_transactions", TRUE)

\* ------------------------------------------------------------------ C29

\* C29: the transaction submitted to the policy check has the id the dispute
\* was requested for, whether the details came from the lookup by id or from
\* the fallback query; for an id the transaction-detail service does not
\* know no policy check is made, and a request whose two lookups were made
\* ends with the outcome that the details were not found
C29_SubmitsRequestedTransaction ==
    /\ CallsOf("check_dispute_policy") # {} =>
          orch.submitted.transaction_id = orch.transaction_id
    /\ get_transaction_details(orch.transaction_id) = NoDetails =>
          /\ CallsOf("check_dispute_policy") = {}
          /\ orch.returned = "value" /\ CallsOf("query_transactions") # {} =>
                orch.dispute_outcome.kind
                    = "Failed: Transaction details not found."

\* a dispute for the unknown id TX99999 has ended in a policy decision about
\* transaction TX12345
C29_WrongTransactionJudged ==
    /\ orch.transaction_id = "TX99999"
    /\ orch.returned = "value"
    /\ orch.submitted.transaction_id = "TX12345"
    /\ orch.dispute_outcome.kind = "Success: Dispute - Decision"

====
